---- MODULE Spec2Model ----
(***************************************************************************)
(* The t-walk step method (pymc/sandbox/TWalk.py) as a state machine, and   *)
(* the chain directories of the txt database (pymc/database/txt.py).       *)
(*                                                                         *)
(* The sampler keeps two points, values[0] and values[1] in the source     *)
(* (values[1] and values[2] here: TLA+ sequences start at 1), and shares   *)
(* one mutable channel with the target variable: stochastic.value, with    *)
(* the stochastic's last_value behind it.  step() is split at its retry    *)
(* loop: StepBegin (pivot choice, logp), Propose (one pass of the loop),   *)
(* StepFinish (zero-selection test, proposed logp, acceptance, commit).    *)
(*                                                                         *)
(* Numbers.  Coordinates are integers.  Quantities of the log domain are   *)
(* exact numbers  l*log(2) + n/d  (records [l, n, d], d > 0); d = 0 is the *)
(* IEEE not-a-number the source produces when sigma = 0.  Random variates  *)
(* are drawn from small sets chosen so that every result stays on the      *)
(* integer grid.                                                           *)
(***************************************************************************)
EXTENDS Integers, Sequences, FiniteSets, TLC

VARIABLES
    values,          \* self.values: <<primary point, auxiliary point>>
    value,           \* self.stochastic.value
    last_value,      \* the stochastic's previous value (what revert() restores)
    _prime,          \* self._prime: the auxiliary point is the pivot
    phi,             \* self.phi: mask of the last proposal
    current_kernel,  \* self.current_kernel (0..3; -1 stands for None)
    hastings_factor, \* self.hastings_factor
    accepted,        \* self.accepted
    rejected,        \* self.rejected
    cum_probs,       \* self.cum_probs, in ten-thousandths
    n1,              \* constructor argument n1 (self.p = min(_len, n1)/_len)
    support,         \* which support predicate self._support is
    density,         \* which log-density the target variable has
    logp,            \* step()'s local logp, Zero outside step()
    pc,              \* where step() stands: idle, loop, proposed, raised
    pre,             \* history: self.values when the current/last step began
    nlogp,           \* history: evaluations of logp_plus_loglike in the step
    retried,         \* history: a proposal of this step failed the support test
    outcome,         \* history: how the last step ended
    steps,           \* history: completed calls of step()
    kdraw,           \* the uniform variate last used to choose a kernel
    twin,            \* a second sampler, fed the same random variates
    chains,          \* txt Database: self.chains
    directory,       \* txt Database: the directories found in self._directory
    files,           \* txt Database: trace files written, [chain, dir]
    db_raised        \* txt Database: the exception of the last call, or none

vars == <<values, value, last_value, _prime, phi, current_kernel,
          hastings_factor, accepted, rejected, cum_probs, n1, support,
          density, logp, pc, pre, nlogp, retried, outcome, steps, kdraw,
          twin, chains, directory, files, db_raised>>

\* The variables of the sampler, and those of the txt database
sampler_vars == <<values, value, last_value, _prime, phi, current_kernel,
                  hastings_factor, accepted, rejected, cum_probs, n1, support,
                  density, logp, pc, pre, nlogp, retried, outcome, steps,
                  kdraw, twin>>

db_vars == <<chains, directory, files, db_raised>>

(***************************************************************************)
(* Bounds of the model.                                                    *)
(***************************************************************************)
\* Coordinates of both points stay within -MaxAbs .. MaxAbs.
MaxAbs == 2
\* Calls of step() per behaviour.
MaxSteps == 2
\* Chains of a txt database.
MaxChains == 12
\* Trace files written to a txt database per behaviour.
MaxFiles == 2

\* self._len: the number of coordinates of the target variable.
_len == 2

Coords == 1 .. _len
Range == (0 - MaxAbs) .. MaxAbs
Points == [Coords -> Range]

(***************************************************************************)
(* Integer helpers.                                                        *)
(***************************************************************************)
Abs(i) == IF i < 0 THEN 0 - i ELSE i

Sgn(i) == IF i < 0 THEN -1 ELSE IF i > 0 THEN 1 ELSE 0

RECURSIVE GCD(_, _)
GCD(a, b) == IF b = 0 THEN a ELSE GCD(b, a % b)

RECURSIVE SumOver(_, _)
\* sum(f) over the index set S, as Python's sum() over an array
SumOver(f, S) ==
    IF S = {} THEN 0
    ELSE LET i == CHOOSE j \in S : TRUE IN f[i] + SumOver(f, S \ {i})

RECURSIVE MaxOver(_, _)
\* max(f) over the non-empty index set S, as Python's max() over an array
MaxOver(f, S) ==
    LET i == CHOOSE j \in S : TRUE
    IN  IF S = {i} THEN f[i]
        ELSE LET m == MaxOver(f, S \ {i}) IN IF f[i] > m THEN f[i] ELSE m

(***************************************************************************)
(* Numbers of the log domain:  l*log(2) + n/d.                             *)
(***************************************************************************)
NaN == [l |-> 0, n |-> 0, d |-> 0]

IsNaN(a) == a.d = 0

\* n/d in lowest terms with d > 0
Num(l, n, d) ==
    LET g == GCD(Abs(n), d)
    IN  [l |-> l, n |-> n \div g, d |-> d \div g]

Zero == [l |-> 0, n |-> 0, d |-> 1]

\* IEEE addition and subtraction: not-a-number is contagious
Add(a, b) ==
    IF IsNaN(a) \/ IsNaN(b) THEN NaN
    ELSE Num(a.l + b.l, a.n * b.d + b.n * a.d, a.d * b.d)

Sub(a, b) ==
    IF IsNaN(a) \/ IsNaN(b) THEN NaN
    ELSE Num(a.l - b.l, a.n * b.d - b.n * a.d, a.d * b.d)

\* The continued fraction of log(2) = [0; 1, 2, 3, 1, 6, ...]: the convergent
\* of the last term has a denominator above 2^31
Log2Terms ==
    <<0, 1, 2, 3, 1, 6, 3, 1, 1, 2, 1, 1, 1, 1, 3, 10, 1, 1, 1, 2, 1, 1, 1, 1,
      3, 2, 3, 1, 13>>

RECURSIVE BelowTail(_, _, _)
\* N/D < [a_i; a_(i+1), ...], the tail of the continued fraction from term i
\* (N >= 0, D > 0): the integer parts decide, or else the reciprocals of the
\* fractional parts, in reverse order; the tail is irrational, so a ratio
\* that has no fractional part left is below it
BelowTail(N, D, i) ==
    IF i > Len(Log2Terms) THEN FALSE
    ELSE LET q == N \div D
             r == N % D
         IN  IF q # Log2Terms[i] THEN q < Log2Terms[i]
             ELSE IF r = 0 THEN TRUE
             ELSE ~BelowTail(D, r, i + 1)

\* The sign of l*log(2) + n/d: with l and n of opposite signs, that of l
\* when |n|/(d*|l|) < log(2) and that of n otherwise
SignOf(a) ==
    IF a.l = 0 THEN Sgn(a.n)
    ELSE IF a.n = 0 THEN Sgn(a.l)
    ELSE IF Sgn(a.l) = Sgn(a.n) THEN Sgn(a.l)
    ELSE IF BelowTail(Abs(a.n), Abs(a.l) * a.d, 1) THEN Sgn(a.l)
    ELSE Sgn(a.n)

\* IEEE a > b: false when either side is not a number
Gt(a, b) == ~IsNaN(a) /\ ~IsNaN(b) /\ SignOf(Sub(a, b)) = 1

\* IEEE a <= b: false when either side is not a number
Leq(a, b) == ~IsNaN(a) /\ ~IsNaN(b) /\ SignOf(Sub(a, b)) <= 0

(***************************************************************************)
(* The target variable (pymc Stochastic): its value setter and revert().   *)
(* A sampler state is a record st of the fields the step method changes.   *)
(***************************************************************************)
\* stochastic.value = v : the value held so far becomes the previous value
SetValue(st, v) == [st EXCEPT !.last_value = st.value, !.value = v]

\* stochastic.revert() : back to the value held before the last assignment
Revert(st) == [st EXCEPT !.value = st.last_value]

\* The target's log-density signals ZeroProbability at h
ZeroProbability(dens, h) ==
    CASE dens = "normal"   -> FALSE
      [] dens = "positive" -> h[1] < 0

\* logp_plus_loglike at h when it is defined: -1/2 * sum(h**2)
logp_plus_loglike(h) ==
    Num(0, 0 - SumOver([i \in Coords |-> h[i] * h[i]], Coords), 2)

\* self._support(h), for the support predicates of the model
Supported(sup, h) ==
    CASE sup = "all"    -> TRUE
      [] sup = "nonneg" -> h[1] >= 0
      [] sup = "single" -> \A i \in Coords : h[i] = 0

(***************************************************************************)
(* Construction.                                                           *)
(***************************************************************************)
\* kernel_probs default, in ten-thousandths
DefaultKernelProbs == <<4918, 4918, 82, 82>>

RECURSIVE cumsum(_, _)
\* np.cumsum(w)[i]
cumsum(w, i) == IF i = 0 THEN 0 ELSE cumsum(w, i - 1) + w[i]

CumProbs(w) == [i \in 1 .. Len(w) |-> cumsum(w, i)]

Min(a, b) == IF a < b THEN a ELSE b

\* Mutant of P: the ratio taken over n1 instead of self._len
P_OverN1(n) == <<Min(_len, n), n>>

\* self.p = 1.*min(self._len, n1)/self._len, as <<numerator, denominator>>
P(n) == <<Min(_len, n), _len>>

(***************************************************************************)
(* The four kernels.  Each reads self.values, self._prime, self.phi and    *)
(* its random variates and yields the proposed point x, the Hastings       *)
(* factor, and whether x lies on the integer grid.                         *)
(***************************************************************************)
\* if self._prime: xp, x = self.values  else: x, xp = self.values
Pivot(vals, pr) == IF pr THEN vals[2] ELSE vals[1]
Reference(vals, pr) == IF pr THEN vals[1] ELSE vals[2]

\* sum(phi)
NPhi(ph) == Cardinality({i \in Coords : ph[i]})

\* max(phi*abs(xp - x))
MaxDist(x, xp, ph) ==
    MaxOver([i \in Coords |-> IF ph[i] THEN Abs(xp[i] - x[i]) ELSE 0], Coords)

\* Mutant of walk: the factor of traverse with beta = 2 is left in place of 0
walk_TraverseFactor(vals, pr, ph, cur, zh) ==
    LET x  == Pivot(vals, pr)
        xp == Reference(vals, pr)
    IN  [x    |-> [i \in Coords |->
                     IF ph[i] THEN x[i] + ((x[i] - xp[i]) * zh[i]) \div 2
                     ELSE x[i]],
         grid |-> \A i \in Coords : ph[i] => ((x[i] - xp[i]) * zh[i]) % 2 = 0,
         hf   |-> Num(NPhi(ph) - 2, 0, 1)]

\* walk: x + phi*(x - xp)*z, z[i] = zh[i]/2 per coordinate; hastings_factor 0
walk(vals, pr, ph, cur, zh) ==
    LET x  == Pivot(vals, pr)
        xp == Reference(vals, pr)
    IN  [x    |-> [i \in Coords |->
                     IF ph[i] THEN x[i] + ((x[i] - xp[i]) * zh[i]) \div 2
                     ELSE x[i]],
         grid |-> \A i \in Coords : ph[i] => ((x[i] - xp[i]) * zh[i]) % 2 = 0,
         hf   |-> Zero]

\* 2^e * a for e in {-1, 1}
Scale2(e, a) == IF e >= 0 THEN 2 * a ELSE a \div 2

\* Mutant of traverse: the term x*(phi==False) is lost and every coordinate
\* is reflected
traverse_Unmasked(vals, pr, ph, cur, e) ==
    LET x  == Pivot(vals, pr)
        xp == Reference(vals, pr)
    IN  [x    |-> [i \in Coords |-> xp[i] + Scale2(e, xp[i] - x[i])],
         grid |-> \A i \in Coords : e < 0 => (xp[i] - x[i]) % 2 = 0,
         hf   |-> Num((NPhi(ph) - 2) * e, 0, 1)]

\* traverse: (xp + beta*(xp - x))*phi + x*(phi==False), beta = 2^e;
\* hastings_factor (sum(phi) - 2)*log(beta)
traverse(vals, pr, ph, cur, e) ==
    LET x  == Pivot(vals, pr)
        xp == Reference(vals, pr)
    IN  [x    |-> [i \in Coords |->
                     IF ph[i] THEN xp[i] + Scale2(e, xp[i] - x[i]) ELSE x[i]],
         grid |-> \A i \in Coords : (ph[i] /\ e < 0) => (xp[i] - x[i]) % 2 = 0,
         hf   |-> Num((NPhi(ph) - 2) * e, 0, 1)]

\* _g(h, xp, s) under self.phi = ph, for s = sn/sd:
\*   (nphi/2)*log(2*pi) + nphi*log(s) + 0.5*sum((h - xp)**2)/(s**2)
\* as the record [nphi, sn, sd, q] that stands for
\*   (nphi/2)*log(2*pi) + nphi*log(sn/sd) + q,
\* q the last term, its sum over every coordinate.  With s = 0 the result
\* is not a number (log(0) = -inf against a division by 0), and so is q.
_g(h, xp, ph, sn, sd) ==
    [nphi |-> NPhi(ph), sn |-> sn, sd |-> sd,
     q |-> IF sn = 0 THEN NaN
           ELSE Num(0,
                    SumOver([i \in Coords |-> (h[i] - xp[i]) * (h[i] - xp[i])],
                            Coords) * sd * sd,
                    2 * sn * sn)]

\* Mutant of blow: a sigma of 0 is replaced by 1
blow_MinSigma(vals, pr, ph, cur, r) ==
    LET x     == Pivot(vals, pr)
        xp    == Reference(vals, pr)
        m     == MaxDist(x, xp, ph)
        sigma == IF m = 0 THEN 1 ELSE m
        new   == [i \in Coords |-> IF ph[i] THEN x[i] + sigma * r ELSE x[i]]
    IN  [x    |-> new,
         grid |-> TRUE,
         hf   |-> Sub(_g(new, xp, ph, sigma, 1).q, _g(cur, xp, ph, sigma, 1).q)]

\* blow: sigma = max(phi*abs(xp - x)); x + phi*sigma*rnormal();
\* hastings_factor = _g(x, xp, sigma) - _g(self.stochastic.value, xp, sigma):
\* both calls are made under the same phi and sigma, their terms in nphi and
\* s are equal and the difference is that of the last terms
blow(vals, pr, ph, cur, r) ==
    LET x     == Pivot(vals, pr)
        xp    == Reference(vals, pr)
        sigma == MaxDist(x, xp, ph)
        new   == [i \in Coords |-> IF ph[i] THEN x[i] + sigma * r ELSE x[i]]
    IN  [x    |-> new,
         grid |-> TRUE,
         hf   |-> Sub(_g(new, xp, ph, sigma, 1).q, _g(cur, xp, ph, sigma, 1).q)]

\* hop: sigma = max(phi*abs(xp - x))/3.0;
\* (xp + sigma*rnormal())*phi + x*(phi==False); hastings_factor as in blow
hop(vals, pr, ph, cur, r) ==
    LET x   == Pivot(vals, pr)
        xp  == Reference(vals, pr)
        m   == MaxDist(x, xp, ph)
        new == [i \in Coords |-> IF ph[i] THEN xp[i] + (m * r) \div 3 ELSE x[i]]
    IN  [x    |-> new,
         grid |-> (NPhi(ph) > 0) => (m * r) % 3 = 0,
         hf   |-> Sub(_g(new, xp, ph, m, 3).q, _g(cur, xp, ph, m, 3).q)]

(***************************************************************************)
(* propose(), reject() and the two exits of step().                        *)
(***************************************************************************)
\* self.current_kernel = sum(self.cum_probs < random()), u in ten-thousandths
KernelIndex(cum, u) == Cardinality({i \in DOMAIN cum : cum[i] < u})

\* self.phi = (random(self._len) < self.p), md[i] in quarters
Mask(md, n) == [i \in Coords |-> md[i] * P(n)[2] < 4 * P(n)[1]]

\* kernel = self.kernels[self.current_kernel]; kernel()
RunKernel(k, vals, pr, ph, cur, d) ==
    CASE k = 0 -> walk(vals, pr, ph, cur, d)
      [] k = 1 -> traverse(vals, pr, ph, cur, d)
      [] k = 2 -> blow(vals, pr, ph, cur, d)
      [] k = 3 -> hop(vals, pr, ph, cur, d)

\* Mutant of reject: the rejection is counted at kernel 0 whatever the kernel
reject_FirstCounter(st, k) == [Revert(st) EXCEPT !.rejected[1] = @ + 1]

\* reject(): self.stochastic.revert(); self.rejected[self.current_kernel] += 1
reject(st, k) == [Revert(st) EXCEPT !.rejected[k + 1] = @ + 1]

\* Mutant of ZeroProbabilityExit: the rejection is counted, the target is not
\* reverted
ZeroProbabilityExit_NoRevert(st, k, pr) ==
    LET r == [st EXCEPT !.rejected[k + 1] = @ + 1]
    IN  IF pr
        THEN SetValue([r EXCEPT !.values[2] = r.value], r.values[1])
        ELSE [r EXCEPT !.values[1] = r.value]

\* step(), the handler of ZeroProbability (zero selection, or the proposed
\* point has no log-probability): reject, update the value list, return
ZeroProbabilityExit(st, k, pr) ==
    LET r == reject(st, k)
    IN  IF pr
        THEN SetValue([r EXCEPT !.values[2] = r.value], r.values[1])
        ELSE [r EXCEPT !.values[1] = r.value]

\* the acceptance test fails: log(random()) > logp_p - logp + hastings_factor
TestFails(logu, lp, lpp, hf) == Gt(logu, Add(Sub(lpp, lp), hf))

\* Mutant of AcceptanceExit: the target is left showing the auxiliary point
AcceptanceExit_NoRestore(st, k, pr, fails) ==
    LET a == IF fails THEN reject(st, k)
             ELSE [st EXCEPT !.accepted[k + 1] = @ + 1]
    IN  IF pr
        THEN [a EXCEPT !.values[2] = a.value]
        ELSE [a EXCEPT !.values[1] = a.value]

\* Mutant of AcceptanceExit: the value list is updated at the primary point
\* whatever the pivot
AcceptanceExit_PrimarySlot(st, k, pr, fails) ==
    LET a == IF fails THEN reject(st, k)
             ELSE [st EXCEPT !.accepted[k + 1] = @ + 1]
    IN  IF pr
        THEN SetValue([a EXCEPT !.values[1] = a.value], a.value)
        ELSE [a EXCEPT !.values[1] = a.value]

\* step(), the acceptance ratio and the update of the value list
AcceptanceExit(st, k, pr, fails) ==
    LET a == IF fails THEN reject(st, k)
             ELSE [st EXCEPT !.accepted[k + 1] = @ + 1]
    IN  IF pr
        THEN SetValue([a EXCEPT !.values[2] = a.value], a.values[1])
        ELSE [a EXCEPT !.values[1] = a.value]

(***************************************************************************)
(* Random variates.                                                        *)
(***************************************************************************)
\* random() choosing the kernel, in ten-thousandths: one draw for each kernel
\* under the default kernel_probs
KernelDraws == {0, 5000, 9900, 9950}
\* random(self._len) choosing the mask, in quarters
MaskDraws == {0, 3}
\* walk: z = (theta/(1 + theta))*(theta*u**2 + 2*u - 1) in halves; with
\* walk_theta = 1.5, z ranges over [-0.6, 1.5)
WalkDraws == {-1, 2}
\* traverse: beta = 2^e, below 1 on the first branch and above 1 on the second
BetaExps == {-1, 1}
\* rnormal()
NormalDraws == {-1, 0, 1}
\* the acceptance draw random() = 2^(-j): log(random()) = -j*log(2)
AcceptDraws == {1, 4}

KernelVariates(k) ==
    CASE k = 0 -> [Coords -> WalkDraws]
      [] k = 1 -> BetaExps
      [] k \in {2, 3} -> NormalDraws
      [] OTHER -> {0}

(***************************************************************************)
(* The state machine.                                                      *)
(***************************************************************************)
St == [values |-> values, value |-> value, last_value |-> last_value,
       accepted |-> accepted, rejected |-> rejected]

Put(st) ==
    /\ values' = st.values
    /\ value' = st.value
    /\ last_value' = st.last_value
    /\ accepted' = st.accepted
    /\ rejected' = st.rejected

Origin == [i \in Coords |-> 0]

UnitPoint == [i \in Coords |-> IF i = 1 THEN 1 ELSE 0]

\* Initial values of the target variable: the origin and the first unit vector
InitPoints == {Origin, UnitPoint}

\* Initial auxiliary points (inits, or stochastic.random()): those, and a point
\* with a negative first coordinate
AuxPoints == InitPoints \cup { [i \in Coords |-> IF i = 1 THEN -1 ELSE 1] }

\* Constructor arguments and target densities of the model
Configs ==
    { [support |-> s, density |-> f, n1 |-> n, kernel_probs |-> DefaultKernelProbs] :
        <<s, f, n>> \in { <<"all", "normal", 4>>, <<"all", "normal", 1>>,
                          <<"nonneg", "normal", 1>>, <<"all", "positive", 1>> } }

\* __init__: values = [stochastic.value, stochastic.random() or inits]
Construct(c, x0, x1, given) ==
    /\ values = <<x0, x1>>
    /\ value = x0
    /\ last_value = IF given THEN x0 ELSE x1
    /\ _prime = FALSE
    /\ phi = [i \in Coords |-> FALSE]
    /\ current_kernel = -1
    /\ hastings_factor = Zero
    /\ accepted = <<0, 0, 0, 0>>
    /\ rejected = <<0, 0, 0, 0>>
    /\ cum_probs = CumProbs(c.kernel_probs)
    /\ n1 = c.n1
    /\ support = c.support
    /\ density = c.density
    /\ logp = Zero
    /\ pc = "idle"
    /\ pre = <<x0, x1>>
    /\ nlogp = 0
    /\ retried = FALSE
    /\ outcome = "none"
    /\ steps = 0
    /\ kdraw = -1

(***************************************************************************)
(* The txt database: one directory Chain_<n> per chain.  A directory name  *)
(* is the string of decimal digits after the prefix "Chain_", which every  *)
(* name shares.                                                            *)
(***************************************************************************)
RECURSIVE ChainName(_)
\* CHAIN_NAME % n: the decimal digits of n
ChainName(n) ==
    IF n < 10 THEN <<n>> ELSE Append(ChainName(n \div 10), n % 10)

RECURSIVE StrLess(_, _)
\* a < b on Python strings: character by character, a proper prefix first
StrLess(a, b) ==
    IF b = <<>> THEN FALSE
    ELSE IF a = <<>> THEN TRUE
    ELSE IF Head(a) # Head(b) THEN Head(a) < Head(b)
    ELSE StrLess(Tail(a), Tail(b))

\* get_chains(): the Chain_ directories of the listing, after chains.sort()
get_chains(listing) ==
    [i \in 1 .. Cardinality(listing) |->
        CHOOSE c \in listing :
            Cardinality({b \in listing : StrLess(b, c)}) = i - 1]

\* base.Database._initialize: one more chain
base_initialize(n) == n + 1

\* Database.__init__(dbname, dbmode): an existing directory is emptied under
\* dbmode 'w' and kept as it is under 'a' and 'r'; a missing one is made;
\* self.chains = 0 in every case
Database(exists, listing, dbmode) ==
    /\ chains = 0
    /\ directory = IF exists /\ dbmode # "w" THEN listing ELSE {}
    /\ files = {}
    /\ db_raised = "none"

\* load(dirname), on the directory of the database (which exists): a new
\* Database in mode 'a' whose chains is the number of Chain_ directories
load ==
    /\ chains' = Len(get_chains(directory))
    /\ db_raised' = "none"
    /\ UNCHANGED <<directory, files>>
    /\ UNCHANGED sampler_vars

\* Database._initialize: os.mkdir(Chain_<self.chains>), which raises OSError
\* when the directory exists, then the base class
_initialize ==
    /\ chains < MaxChains
    /\ IF ChainName(chains) \in directory
       THEN /\ db_raised' = "OSError"
            /\ UNCHANGED <<chains, directory>>
       ELSE /\ directory' = directory \cup {ChainName(chains)}
            /\ chains' = base_initialize(chains)
            /\ db_raised' = "none"
    /\ UNCHANGED files
    /\ UNCHANGED sampler_vars

\* Trace._finalize(chain): the trace of the chain is written to
\* self.db.get_chains()[chain]/<name>.txt; IndexError when the list is
\* shorter
_finalize(chain) ==
    /\ Cardinality(files) < MaxFiles
    /\ IF chain < Len(get_chains(directory))
       THEN /\ files' = files \cup
                  {[chain |-> chain, dir |-> get_chains(directory)[chain + 1]]}
            /\ db_raised' = "none"
       ELSE /\ db_raised' = "IndexError"
            /\ UNCHANGED files
    /\ UNCHANGED <<chains, directory>>
    /\ UNCHANGED sampler_vars

(***************************************************************************)
(* A second sampler on a target of its own, as one record t of the         *)
(* attributes step() reads and writes; it shares the constructor arguments *)
(* (cum_probs, n1, support, density) with the first.                       *)
(***************************************************************************)
\* __init__, as a record
Sampler(x0, x1, given) ==
    [values |-> <<x0, x1>>, value |-> x0,
     last_value |-> IF given THEN x0 ELSE x1,
     _prime |-> FALSE, phi |-> [i \in Coords |-> FALSE],
     current_kernel |-> -1, hastings_factor |-> Zero,
     accepted |-> <<0, 0, 0, 0>>, rejected |-> <<0, 0, 0, 0>>,
     logp |-> Zero, pc |-> "idle", outcome |-> "none"]

\* A call made where step() does not stand
Diverged(t) == [t EXCEPT !.pc = "diverged"]

\* step() up to the retry loop
step_begin(t, pr) ==
    LET st == IF pr THEN SetValue(t, t.values[2]) ELSE t
        zp == ZeroProbability(density, st.value)
    IN  IF t.pc # "idle" THEN Diverged(t)
        ELSE [st EXCEPT !._prime = pr,
                        !.pc = IF zp THEN "raised" ELSE "loop",
                        !.outcome = IF zp THEN "raised" ELSE "running",
                        !.logp = IF zp THEN @ ELSE logp_plus_loglike(st.value)]

\* Mutant of step_propose: the walk kernel leaves hastings_factor as it
\* finds it
step_propose_StaleFactor(t, u, md, d) ==
    LET k  == KernelIndex(cum_probs, u)
        ph == Mask(md, n1)
    IN  IF t.pc # "loop" THEN Diverged(t)
        ELSE IF k > 3
        THEN [t EXCEPT !.current_kernel = k, !.pc = "raised",
                       !.outcome = "raised"]
        ELSE LET res == RunKernel(k, t.values, t._prime, ph, t.value, d)
             IN  [SetValue(t, res.x) EXCEPT
                    !.current_kernel = k,
                    !.phi = ph,
                    !.hastings_factor = IF k = 0 THEN @ ELSE res.hf,
                    !.pc = IF Supported(support, res.x) THEN "proposed"
                           ELSE "loop"]

\* one pass of the loop: propose(), then the support test
step_propose(t, u, md, d) ==
    LET k  == KernelIndex(cum_probs, u)
        ph == Mask(md, n1)
    IN  IF t.pc # "loop" THEN Diverged(t)
        ELSE IF k > 3
        THEN [t EXCEPT !.current_kernel = k, !.pc = "raised",
                       !.outcome = "raised"]
        ELSE LET res == RunKernel(k, t.values, t._prime, ph, t.value, d)
             IN  [SetValue(t, res.x) EXCEPT
                    !.current_kernel = k,
                    !.phi = ph,
                    !.hastings_factor = res.hf,
                    !.pc = IF Supported(support, res.x) THEN "proposed"
                           ELSE "loop"]

\* step() after the loop
step_finish(t, j) ==
    LET zsel  == NPhi(t.phi) = 0
        zprob == ~zsel /\ ZeroProbability(density, t.value)
        fails == TestFails(Num(0 - j, 0, 1), t.logp,
                           logp_plus_loglike(t.value), t.hastings_factor)
        r     == IF zsel \/ zprob
                 THEN ZeroProbabilityExit(t, t.current_kernel, t._prime)
                 ELSE AcceptanceExit(t, t.current_kernel, t._prime, fails)
    IN  IF t.pc # "proposed" THEN Diverged(t)
        ELSE [r EXCEPT !.pc = "idle",
                       !.logp = Zero,
                       !.outcome = IF zsel THEN "zero_selection"
                                   ELSE IF zprob THEN "zero_probability"
                                   ELSE IF fails THEN "rejected"
                                   ELSE "accepted"]

Init ==
    \E c \in Configs, x0 \in InitPoints, x1 \in AuxPoints, given \in BOOLEAN :
        /\ Construct(c, x0, x1, given)
        /\ twin = Sampler(x0, x1, given)
        /\ Database(FALSE, {}, "a")

\* Mutant of StepBegin: the current log-probability is evaluated before the
\* target is set to the auxiliary point
StepBegin_LogpFirst(pr) ==
    /\ pc = "idle"
    /\ steps < MaxSteps
    /\ _prime' = pr
    /\ LET st == IF pr THEN SetValue(St, values[2]) ELSE St
       IN  /\ Put(st)
           /\ IF ZeroProbability(density, value)
              THEN /\ pc' = "raised"
                   /\ outcome' = "raised"
                   /\ logp' = logp
              ELSE /\ pc' = "loop"
                   /\ outcome' = "running"
                   /\ logp' = logp_plus_loglike(value)
    /\ pre' = values
    /\ nlogp' = 1
    /\ retried' = FALSE
    /\ twin' = step_begin(twin, pr)
    /\ UNCHANGED db_vars
    /\ UNCHANGED <<phi, current_kernel, hastings_factor, cum_probs, n1,
                   support, density, steps, kdraw>>

\* step() up to the retry loop: choose the pivot, show it on the target,
\* evaluate the current log-probability (outside the try block)
StepBegin(pr) ==
    /\ pc = "idle"
    /\ steps < MaxSteps
    /\ _prime' = pr
    /\ LET st == IF pr THEN SetValue(St, values[2]) ELSE St
       IN  /\ Put(st)
           /\ IF ZeroProbability(density, st.value)
              THEN /\ pc' = "raised"
                   /\ outcome' = "raised"
                   /\ logp' = logp
              ELSE /\ pc' = "loop"
                   /\ outcome' = "running"
                   /\ logp' = logp_plus_loglike(st.value)
    /\ pre' = values
    /\ nlogp' = 1
    /\ retried' = FALSE
    /\ twin' = step_begin(twin, pr)
    /\ UNCHANGED db_vars
    /\ UNCHANGED <<phi, current_kernel, hastings_factor, cum_probs, n1,
                   support, density, steps, kdraw>>

\* one pass of the loop: propose(), then the support test
ProposeWith(u, md, d) ==
    LET k   == KernelIndex(cum_probs, u)
        ph  == Mask(md, n1)
        res == RunKernel(k, values, _prime, ph, value, d)
    IN  /\ pc = "loop"
        /\ kdraw' = u
        /\ current_kernel' = k
        /\ IF k > 3
           THEN \* self.kernels[4]: IndexError leaves step()
                /\ pc' = "raised"
                /\ outcome' = "raised"
                /\ UNCHANGED <<values, value, last_value, accepted, rejected,
                               phi, hastings_factor, retried>>
           ELSE /\ res.grid
                /\ res.x \in Points
                /\ phi' = ph
                /\ hastings_factor' = res.hf
                /\ Put(SetValue(St, res.x))
                /\ pc' = IF Supported(support, res.x) THEN "proposed" ELSE "loop"
                /\ retried' = (retried \/ ~Supported(support, res.x))
                /\ UNCHANGED outcome
        /\ twin' = step_propose(twin, u, md, d)
        /\ UNCHANGED db_vars
        /\ UNCHANGED <<_prime, cum_probs, n1, support, density, logp, pre,
                       nlogp, steps>>

Propose ==
    \E u \in KernelDraws, md \in [Coords -> MaskDraws] :
        \E d \in KernelVariates(KernelIndex(cum_probs, u)) :
            ProposeWith(u, md, d)

\* step() after the loop: zero selection, the proposed log-probability, the
\* acceptance test, the update of the value list
StepFinish(j) ==
    LET zsel  == NPhi(phi) = 0
        zprob == ~zsel /\ ZeroProbability(density, value)
        fails == TestFails(Num(0 - j, 0, 1), logp, logp_plus_loglike(value),
                           hastings_factor)
    IN  /\ pc = "proposed"
        /\ Put(IF zsel \/ zprob
               THEN ZeroProbabilityExit(St, current_kernel, _prime)
               ELSE AcceptanceExit(St, current_kernel, _prime, fails))
        /\ nlogp' = IF zsel THEN nlogp ELSE nlogp + 1
        /\ outcome' = IF zsel THEN "zero_selection"
                      ELSE IF zprob THEN "zero_probability"
                      ELSE IF fails THEN "rejected" ELSE "accepted"
        /\ pc' = "idle"
        /\ steps' = steps + 1
        /\ logp' = Zero
        /\ twin' = step_finish(twin, j)
        /\ UNCHANGED db_vars
        /\ UNCHANGED <<_prime, phi, current_kernel, hastings_factor, cum_probs,
                       n1, support, density, pre, retried, kdraw>>

Next ==
    \/ \E pr \in BOOLEAN : StepBegin(pr)
    \/ Propose
    \/ \E j \in AcceptDraws : StepFinish(j)

Spec == Init /\ [][Next]_vars

\* Construction with n1 >= self._len
InitFull ==
    \E c \in {k \in Configs : k.n1 >= _len}, x0 \in InitPoints,
       x1 \in AuxPoints, given \in BOOLEAN :
        /\ Construct(c, x0, x1, given)
        /\ twin = Sampler(x0, x1, given)
        /\ Database(FALSE, {}, "a")

SpecFull == InitFull /\ [][Next]_vars

(***************************************************************************)
(* Kernel selection on its own: propose() under kernel weights that need   *)
(* not sum to 1, with draws on and off the cumulative bounds.              *)
(***************************************************************************)
\* kernel_probs entries, in ten-thousandths
WeightChoices == {0, 2500, 4918, 5000}
\* random() choosing the kernel, in ten-thousandths
UnitDraws == {0, 2500, 4918, 7500, 9999}

InitKernel ==
    \E w \in [1 .. 4 -> WeightChoices] :
        /\ Construct([support |-> "all", density |-> "normal", n1 |-> 4,
                      kernel_probs |-> w], UnitPoint, Origin, TRUE)
        /\ twin = Sampler(UnitPoint, Origin, TRUE)
        /\ Database(FALSE, {}, "a")

ProposeKernel ==
    \E u \in UnitDraws, md \in [Coords -> MaskDraws] :
        \E d \in KernelVariates(KernelIndex(cum_probs, u)) :
            ProposeWith(u, md, d)

NextKernel ==
    \/ StepBegin(FALSE)
    \/ ProposeKernel

SpecKernel == InitKernel /\ [][NextKernel]_vars

(***************************************************************************)
(* A support of one single point (the origin).                             *)
(***************************************************************************)
InitSingle ==
    \E x1 \in InitPoints :
        /\ Construct([support |-> "single", density |-> "normal", n1 |-> 1,
                      kernel_probs |-> DefaultKernelProbs], UnitPoint, x1, TRUE)
        /\ twin = Sampler(UnitPoint, x1, TRUE)
        /\ Database(FALSE, {}, "a")

SpecSingle == InitSingle /\ [][Next]_vars

\* A pass of the loop whose proposal passes the support test
LeaveLoop == Propose /\ pc' = "proposed"

(***************************************************************************)
(* Two samplers in the same state, fed the same random variates.  The      *)
(* state of a sampler is its two points and its counters; the attributes   *)
(* an earlier use leaves behind (the target's previous value, _prime, phi, *)
(* current_kernel, hastings_factor) are free.                              *)
(***************************************************************************)
\* Attributes left behind by an earlier step: as constructed, or as after a
\* traverse proposal on the auxiliary point
Leftovers ==
    { [_prime |-> FALSE, phi |-> [i \in Coords |-> FALSE],
       current_kernel |-> -1, hastings_factor |-> Zero],
      [_prime |-> TRUE, phi |-> [i \in Coords |-> i = 1],
       current_kernel |-> 1, hastings_factor |-> Num(3, 0, 1)] }

InitTwin ==
    \E c \in Configs, x0 \in InitPoints, x1 \in AuxPoints,
       given \in BOOLEAN, left \in Leftovers :
        /\ Construct(c, x0, x1, TRUE)
        /\ twin = [Sampler(x0, x1, given) EXCEPT
                     !._prime = left._prime,
                     !.phi = left.phi,
                     !.current_kernel = left.current_kernel,
                     !.hastings_factor = left.hastings_factor]
        /\ Database(FALSE, {}, "a")

SpecTwin == InitTwin /\ [][Next]_vars

(***************************************************************************)
(* Construction on two coinciding points (inits equal to the target's      *)
(* value).                                                                 *)
(***************************************************************************)
InitCoincide ==
    \E c \in Configs, x0 \in InitPoints, given \in BOOLEAN :
        /\ Construct(c, x0, x0, given)
        /\ twin = Sampler(x0, x0, given)
        /\ Database(FALSE, {}, "a")

SpecCoincide == InitCoincide /\ [][Next]_vars

(***************************************************************************)
(* The txt database on its own: a database is opened on a new or an        *)
(* existing directory, chains are initialized one after another, traces    *)
(* are finalized and the database is loaded again, next to a sampler that  *)
(* is not stepping.                                                        *)
(***************************************************************************)
\* Chain_ directories a database directory may hold when it is opened: none,
\* those of three chains, and one left without its predecessor
Listings ==
    { {}, {ChainName(k) : k \in 0 .. 2}, {ChainName(1)} }

InitTxt ==
    /\ Construct([support |-> "all", density |-> "normal", n1 |-> 4,
                  kernel_probs |-> DefaultKernelProbs], Origin, UnitPoint, TRUE)
    /\ twin = Sampler(Origin, UnitPoint, TRUE)
    /\ \E exists \in BOOLEAN, listing \in Listings, dbmode \in {"a", "r", "w"} :
          Database(exists, listing, dbmode)

NextTxt ==
    \/ _initialize
    \/ \E chain \in 0 .. MaxChains - 1 : _finalize(chain)
    \/ load

SpecTxt == InitTxt /\ [][NextTxt]_vars

(***************************************************************************)
(* Properties.                                                             *)
(***************************************************************************)
Total(c) == c[1] + c[2] + c[3] + c[4]

Returned == pc = "idle" /\ steps > 0

RejectOutcomes == {"rejected", "zero_selection", "zero_probability"}

\* C1: in every idle state (after construction and after every return of
\* step()) the target's visible value is the primary point values[0].
C1_VisibleIsPrimary == pc = "idle" => value = values[1]

\* C1 witness: step() returned having accepted a move of the auxiliary point,
\* which now differs from the primary point the target shows.
C1_Witness ==
    /\ Returned
    /\ _prime
    /\ outcome = "accepted"
    /\ values[2] # pre[2]
    /\ values[2] # values[1]
    /\ value = values[1]

\* C2: after a rejected step (test failure, zero selection or zero
\* probability) both points equal their values from before the step,
\* whatever the number of support-rejected proposals inside the step.
C2_RejectRestoresPoints ==
    (Returned /\ outcome \in RejectOutcomes) => values = pre


\* C3: every completed step() changes exactly one of the eight counters, by
\* +1, at the kernel index of the step's final proposal (rejected[k] on the
\* zero-selection path); proposals that fail the support test, and every
\* other transition, change no counter; the counters sum to the number of
\* completed steps.
C3_OneCounterPerStep ==
    /\ [](Total(accepted) + Total(rejected) = steps)
    /\ [][IF pc = "proposed" /\ pc' = "idle"
          THEN LET k == current_kernel + 1
               IN  /\ k \in 1 .. 4
                   /\ \/ /\ accepted' = [accepted EXCEPT ![k] = @ + 1]
                         /\ rejected' = rejected
                      \/ /\ rejected' = [rejected EXCEPT ![k] = @ + 1]
                         /\ accepted' = accepted
                   /\ NPhi(phi) = 0 => accepted' = accepted
          ELSE accepted' = accepted /\ rejected' = rejected]_vars

\* C3 witness: two steps completed, one through a support-rejected retry and
\* a rejection, one through an acceptance.
C3_Witness ==
    /\ Returned
    /\ steps = 2
    /\ retried
    /\ Total(accepted) = 1
    /\ Total(rejected) = 1

\* C4: with a non-empty mask and a defined proposed log-probability the step
\* accepts iff log(draw) <= logp_p - logp + hastings_factor; on accept the
\* pivot point becomes the proposed point, on reject it keeps its value.
C4_AcceptIff ==
    [][(pc = "proposed" /\ NPhi(phi) > 0 /\ ~ZeroProbability(density, value))
       => \A j \in AcceptDraws :
            StepFinish(j) =>
              LET bound == Add(Sub(logp_plus_loglike(value), logp),
                               hastings_factor)
                  acc   == Leq(Num(0 - j, 0, 1), bound)
              IN  /\ acc <=> accepted' # accepted
                  /\ acc => Pivot(values', _prime) = value
                  /\ ~acc => Pivot(values', _prime) = Pivot(values, _prime)]_vars

\* C5: when the final mask selects no coordinate the step rejects with the
\* log-probability evaluated once in the whole step, counts the rejection at
\* the chosen kernel, leaves both points unchanged and returns.
C5_ZeroSelection ==
    [][(pc = "proposed" /\ NPhi(phi) = 0)
       => /\ pc' = "idle"
          /\ nlogp = 1 /\ nlogp' = 1
          /\ rejected' = [rejected EXCEPT ![current_kernel + 1] = @ + 1]
          /\ accepted' = accepted
          /\ values' = values]_vars

\* C6: for the same state, pivot and proposal, the exit taken on a
\* ZeroProbability of the proposed point leaves the sampler (both points,
\* visible value, counters) exactly as a failed acceptance test does.
C6_ZeroProbabilityAsTestFailure ==
    pc = "proposed" =>
        ZeroProbabilityExit(St, current_kernel, _prime)
            = AcceptanceExit(St, current_kernel, _prime, TRUE)

\* C6 witness: a step ended on the ZeroProbability of its proposed point.
C6_Witness ==
    /\ Returned
    /\ outcome = "zero_probability"
    /\ Total(rejected) = steps

\* C7: no condition in step() is fatal: a ZeroProbability at any evaluation,
\* that of logp before the proposal included, ends in a rejection; no error
\* leaves step() and the target shows the primary point.
C7_NothingEscapes == pc # "raised" /\ (pc = "idle" => value = values[1])

\* C10: with n1 >= n, p is 1, every mask drawn is all-true and no step takes
\* the zero-selection exit.
C10_FullMask ==
    n1 >= _len =>
        /\ P(n1)[1] = P(n1)[2]
        /\ current_kernel >= 0 => \A i \in Coords : phi[i]
        /\ outcome # "zero_selection"

\* C10 witness: two steps completed with n1 >= n, each from a full mask.
C10_Witness ==
    /\ Returned
    /\ n1 >= _len
    /\ steps = 2
    /\ \A i \in Coords : phi[i]


\* The first index whose cumulative bound is not below the draw, and the last
\* index when the draw lies beyond every bound
FirstNotBelow(cum, u) ==
    IF \E i \in DOMAIN cum : cum[i] >= u
    THEN (CHOOSE i \in DOMAIN cum :
            /\ cum[i] >= u
            /\ \A h \in DOMAIN cum : cum[h] >= u => i <= h) - 1
    ELSE Len(cum) - 1

\* C8: for any non-negative weights, summing to 1 or not, and any
\* draw in [0, 1), propose() selects an index in 0..3: the first whose
\* cumulative bound is not below the draw, the last one when the draw lies
\* beyond every bound.
C8_KernelInRange ==
    kdraw >= 0 =>
        /\ current_kernel \in 0 .. 3
        /\ current_kernel = FirstNotBelow(cum_probs, kdraw)

\* A pass of the retry loop that ran a kernel
Proposal == pc = "loop" /\ pc' \in {"loop", "proposed"}

\* C11: every proposal of every kernel differs from the pivot point at masked
\* coordinates only (each coordinate with phi false keeps the pivot point's
\* value), and the value list, the reference point in it, is not modified.
C11_OnlyMaskedMove ==
    [][Proposal =>
         /\ \A i \in Coords :
               ~phi'[i] => value'[i] = Pivot(values, _prime)[i]
         /\ values' = values]_vars

\* C11 witness: a proposal under a mask of one coordinate moved that
\* coordinate and kept the other, at which pivot and reference differ.
C11_Witness ==
    /\ pc = "proposed"
    /\ NPhi(phi) = 1
    /\ \A i \in Coords :
          IF phi[i] THEN value[i] # Pivot(values, _prime)[i]
          ELSE /\ value[i] = Pivot(values, _prime)[i]
               /\ Pivot(values, _prime)[i] # Reference(values, _prime)[i]

\* g(h, xp, sigma) with the squared distances summed over the masked
\* coordinates only, sigma = sn/sd
gMasked(h, xp, ph, sn, sd) ==
    IF sn = 0 THEN NaN
    ELSE Num(0,
             SumOver([i \in Coords |->
                        IF ph[i] THEN (h[i] - xp[i]) * (h[i] - xp[i]) ELSE 0],
                     Coords) * sd * sd,
             2 * sn * sn)

\* C12: for every blow and hop proposal, retries after a support-rejected
\* draw included, hastings_factor = g(x_new) - g(x_old), x_old the pivot
\* point as the step found it and g summing over masked coordinates only
\* (a not-a-number on both sides counts as equal).
C12_HastingsFactor ==
    [][(Proposal /\ current_kernel' \in {2, 3}) =>
         LET x  == Pivot(pre, _prime)
             xp == Reference(pre, _prime)
             m  == MaxDist(x, xp, phi')
             sd == IF current_kernel' = 2 THEN 1 ELSE 3
         IN  hastings_factor' = Sub(gMasked(value', xp, phi', m, sd),
                                    gMasked(x, xp, phi', m, sd))]_vars

\* C13: when the acceptance test is about to be evaluated on a walk proposal
\* hastings_factor is exactly 0, whatever earlier steps and earlier
\* proposals of the step left in it.
C13_WalkFactorZero ==
    (pc = "proposed" /\ current_kernel = 0) => hastings_factor = Zero

\* C13 witness: in a second step, after a support-rejected proposal, a walk
\* proposal that moved the pivot point under a one-coordinate mask awaits the
\* acceptance test with factor 0.
C13_Witness ==
    /\ pc = "proposed"
    /\ current_kernel = 0
    /\ steps = 1
    /\ retried
    /\ NPhi(phi) = 1
    /\ value # Pivot(values, _prime)
    /\ hastings_factor = Zero

\* C14: two samplers in the same state (both points, counters), fed the same
\* random variates under the same log-probability and support, stand at the
\* same place of step() after every action, with identical outcomes,
\* counters and points.
C14_Deterministic ==
    /\ twin.pc = pc
    /\ twin.outcome = outcome
    /\ twin.accepted = accepted
    /\ twin.rejected = rejected
    /\ twin.values = values

\* C14 witness: both samplers have completed two steps, an acceptance and a
\* rejection, the last of them after a support-rejected proposal, and hold
\* the same moved points.
C14_Witness ==
    /\ Returned
    /\ steps = 2
    /\ retried
    /\ twin.pc = "idle"
    /\ Total(twin.accepted) = 1
    /\ Total(twin.rejected) = 1
    /\ twin.values # pre
    /\ twin.values = values

\* A blow proposal whose displacement differs between two coordinates
UnequalBlow ==
    /\ Propose
    /\ current_kernel' = 2
    /\ \E i, h \in Coords :
          /\ phi'[i] /\ phi'[h]
          /\ value'[i] - Pivot(values, _prime)[i]
               # value'[h] - Pivot(values, _prime)[h]

\* C15: blow displaces each masked coordinate by sigma times a normal draw
\* of its own: where every coordinate is masked (n1 >= n), sigma > 0 and
\* the pivot point has room for a displacement of sigma either way in every
\* coordinate, a blow proposal with two different displacements is possible.
C15_BlowPerCoordinate ==
    LET x     == Pivot(values, _prime)
        sigma == MaxDist(x, Reference(values, _prime), [i \in Coords |-> TRUE])
    IN  (/\ pc = "loop"
         /\ n1 >= _len
         /\ sigma > 0
         /\ \A i \in Coords : x[i] - sigma \in Range /\ x[i] + sigma \in Range)
        => ENABLED UnequalBlow

\* C16: while a step is past its beginning, logp is the log-probability of
\* the pivot point (of the auxiliary point when _prime is true, the target
\* having been set to it first), evaluated once before the first proposal
\* and not again after support-rejected proposals.
C16_LogpOfPivot ==
    /\ pc \in {"loop", "proposed"} =>
          /\ logp = logp_plus_loglike(IF _prime THEN values[2] ELSE values[1])
          /\ nlogp = 1
    /\ pc = "raised" => nlogp = 1

\* C16 witness: the pivot is the auxiliary point, whose log-probability
\* differs from the primary point's, and a proposal has been made after a
\* support-rejected one.
C16_Witness ==
    /\ pc = "proposed"
    /\ _prime
    /\ retried
    /\ logp_plus_loglike(values[2]) # logp_plus_loglike(values[1])
    /\ logp = logp_plus_loglike(values[2])
    /\ value # values[2]

\* C17: a step leaves the point that is not the pivot as it found it: the
\* primary point when _prime is true, the auxiliary point when it is false,
\* at every place of the step and on every path out of it.
C17_OnlyPivotModified == Reference(values, _prime) = Reference(pre, _prime)

\* C17 witness: a second step, with the primary point as pivot, accepted a
\* move: the primary point changed, the auxiliary point did not.
C17_Witness ==
    /\ Returned
    /\ steps = 2
    /\ ~_prime
    /\ outcome = "accepted"
    /\ values[1] # pre[1]
    /\ values[2] = pre[2]
    /\ values[2] # values[1]

\* C18: when both points satisfy the support predicate, they satisfy it
\* after every action of a step too (so, by induction, after any sequence of
\* steps from two supported points): no point the support test rejected is
\* committed into the value list.
C18_SupportPreserved ==
    [][(Supported(support, values[1]) /\ Supported(support, values[2]))
       => (Supported(support, values'[1]) /\ Supported(support, values'[2]))]_vars

\* C19: when the two points coincide, every proposal of every kernel under
\* every mask is the pivot point itself, and the points coincide after
\* every action.
C19_CoincidingAbsorbing ==
    [][values[1] = values[2]
       => /\ values'[1] = values'[2]
          /\ Proposal => value' = Pivot(values, _prime)]_vars

\* C19 witness: from coinciding points two steps were completed, the last
\* one an accepted blow proposal, and the points still coincide.
C19_Witness ==
    /\ Returned
    /\ steps = 2
    /\ pre[1] = pre[2]
    /\ values[1] = values[2]
    /\ current_kernel = 2
    /\ NPhi(phi) > 0
    /\ outcome = "accepted"

\* The directories are Chain_0 .. Chain_(chains-1), as successive
\* _initialize calls on a new database leave them
Successive == directory = {ChainName(k) : k \in 0 .. chains - 1}

\* C20: for any number of chains created by successive _initialize calls as
\* directories Chain_0 .. Chain_(m-1), get_chains() lists them by chain
\* index, entry k being Chain_k, and every trace file _finalize(chain=k)
\* writes then lies in Chain_k.
C20_ChainOrder ==
    [][Successive =>
         /\ Len(get_chains(directory)) = chains
         /\ \A k \in 0 .. chains - 1 :
               get_chains(directory)[k + 1] = ChainName(k)
         /\ \A f \in files' \ files : f.dir = ChainName(f.chain)]_vars

\* C9: with a support of one single point a step does not hang: it ends by
\* proposing that point (the source signals no retry exhaustion).  The
\* proposals of a pass depend on self.values, which the loop leaves alone, so
\* a loop that is eventually left can be left from each of its states.
C9_NoHang == pc = "loop" => ENABLED LeaveLoop

====
